---- MODULE Spec2Model ----
(***************************************************************************)
(* A model of tile_extract.py: the TileExtractor class that cuts a PNG     *)
(* into tile_size x tile_size tiles, keeps the unique ones, records a      *)
(* 1-based index per grid cell, plans square tile sheets and writes a TMX  *)
(* map whose layer data is the packed index list.                          *)
(*                                                                         *)
(* Five specifications share the variables:                                *)
(*   Spec        the extraction run on small images (populate_extractor    *)
(*               candidate by candidate, then the output methods);         *)
(*   SpecPlan    get_tile_sheet_specs, loop pass by loop pass;             *)
(*   SpecOutput  the output methods on an extractor holding n unique       *)
(*               tiles of a large tile size (several sheets);              *)
(*   SpecCodec   get_base_64_index_string / output_tmx_for_tiles and       *)
(*               get_tile_indices;                                         *)
(*   SpecSheet   output_tiles_to_sheet, output row by output row.          *)
(***************************************************************************)
EXTENDS Integers, Sequences, FiniteSets, TLC

VARIABLES
    pc,               \* position of the run
    size,             \* <<width, height>> of the PNG (Python size[0], size[1])
    image_data,       \* the PNG's rows, each a flat R,G,B,R,G,B,... sequence
    iter_map,         \* the rows the row iterator has not yielded yet
    tile_size,        \* self.tile_size; the tile_size argument in SpecPlan
    tiles,            \* self.tiles
    tile_indices,     \* self.tile_indices
    none_attrs,       \* the attributes among tiles, tile_indices that are None
    tiles_width,      \* self.tiles_width
    tiles_height,     \* self.tiles_height
    cur_slice_y,      \* populate_extractor: first image row of the next band
    new_tiles,        \* populate_extractor: the candidates of the current band
    cur_new,          \* populate_extractor: position of the for loop in new_tiles
    called,           \* the output methods that have been called
    files,            \* the names of the files written
    sheets,           \* the calls made to output_tiles_to_sheet, in order
    tmx,              \* the documents written by output_tmx_for_tiles (0 or 1)
    num_tiles,        \* get_tile_sheet_specs: argument
    min_sheet_width,  \* get_tile_sheet_specs: argument
    max_sheet_width,  \* get_tile_sheet_specs: argument
    tiles_table,      \* get_tile_sheet_specs: [(width, capacity)] widest first
    num_tiles_left,   \* get_tile_sheet_specs: tiles not yet given a sheet
    chosen_sheet_size,\* get_tile_sheet_specs: the table entry chosen in this pass
    output,           \* get_tile_sheet_specs: the widths chosen so far
    tmx_file,         \* get_tile_indices: the document being read (0 or 1)
    layer_i,          \* get_tile_indices: position of the for loop over layers
    index_list,       \* get_tile_indices: the indices decoded so far
    outcome,          \* get_tile_indices: "none", "returned" or the error raised
    sheet_tiles,      \* output_tiles_to_sheet: the tiles argument
    sheet_width,      \* output_tiles_to_sheet: the square_width argument
    cur_row,          \* output_tiles_to_sheet: position of the for loop over rows
    output_rows       \* output_tiles_to_sheet: the rows built so far

extractVars == <<size, image_data, iter_map, tile_size, tiles, tile_indices,
                 none_attrs, tiles_width, tiles_height, cur_slice_y,
                 new_tiles, cur_new>>
outputVars == <<called, files, sheets, tmx>>
planVars == <<num_tiles, min_sheet_width, max_sheet_width, tiles_table,
              num_tiles_left, chosen_sheet_size, output>>
codecVars == <<tmx_file, layer_i, index_list, outcome>>
sheetVars == <<sheet_tiles, sheet_width, cur_row, output_rows>>
vars == <<pc, extractVars, outputVars, planVars, codecVars, sheetVars>>

----------------------------------------------------------------------------
(* Bounds of the model. *)

MaxWidth == 4         \* images are at most this many pixels wide
MaxHeight == 4        \* images are at most this many pixels high
MaxInk == 3           \* at most this many pixels are not of the paper colour
MaxTileSize == 2      \* tile sizes tried on those images: 1 .. MaxTileSize

(* The two colours the images are painted with: they differ in the last    *)
(* channel only, so that a comparison has to reach it.                      *)
Paper == <<0, 0, 0>>
Ink == <<0, 0, 255>>

----------------------------------------------------------------------------
(* Python helpers. *)

Min(a, b) == IF a < b THEN a ELSE b

(* s[a:b] for 0 <= a: the slice is clamped to the sequence. *)
PySlice(s, a, b) == SubSeq(s, a + 1, Min(b, Len(s)))

(* int(math.pow(x, 2)) *)
PowTwo(x) == x * x

(* a is not b, on pixel channel values. asRGB8 yields channels 0..255 and  *)
(* list() makes them ints of the interpreter's small-integer cache         *)
(* (-5..256), where equal values are one object: identity of two channel   *)
(* values is equality of the values.                                        *)
IsNot(a, b) == a # b

----------------------------------------------------------------------------
(* The states of the variables a specification does not use. *)

IdleScan ==
    /\ size = <<0, 0>>
    /\ image_data = <<>>
    /\ iter_map = <<>>
    /\ cur_slice_y = 0
    /\ new_tiles = <<>>
    /\ cur_new = 0

IdleAttrs ==
    /\ tiles = <<>>
    /\ tile_indices = <<>>
    /\ none_attrs = {"tiles", "tile_indices"}
    /\ tiles_width = 0
    /\ tiles_height = 0

IdleOutput ==
    /\ called = {}
    /\ files = {}
    /\ sheets = <<>>
    /\ tmx = <<>>

IdlePlan ==
    /\ num_tiles = 0
    /\ min_sheet_width = 0
    /\ max_sheet_width = 0
    /\ tiles_table = <<>>
    /\ num_tiles_left = 0
    /\ chosen_sheet_size = <<0, 0>>
    /\ output = <<>>

IdleCodec ==
    /\ tmx_file = <<>>
    /\ layer_i = 0
    /\ index_list = <<>>
    /\ outcome = "none"

IdleSheet ==
    /\ sheet_tiles = <<>>
    /\ sheet_width = 0
    /\ cur_row = 0
    /\ output_rows = <<>>

----------------------------------------------------------------------------
(* TileExtractor.__init__ and populate_extractor. *)

(* The rows asRGB8 yields for the w x h image whose pixels numbered in ink *)
(* (row-major from 1) have the ink colour and the others the paper colour. *)
Pixel(ink, w, r, c) == IF (r - 1) * w + c \in ink THEN Ink ELSE Paper

FlatRows(ink, w, h) ==
    [r \in 1..h |->
        [i \in 1..(3 * w) |-> Pixel(ink, w, r, ((i - 1) \div 3) + 1)[((i - 1) % 3) + 1]]]

(* The state when __init__ has set the attributes and calls                *)
(* populate_extractor: the file is open and its rows are still unread.     *)
Init ==
    /\ pc = "populate"
    /\ \E w \in 1..MaxWidth, h \in 1..MaxHeight :
          /\ size = <<w, h>>
          /\ \E ink \in SUBSET (1..(w * h)) :
                /\ Cardinality(ink) <= MaxInk
                /\ image_data = FlatRows(ink, w, h)
    /\ iter_map = image_data
    /\ tile_size \in 1..MaxTileSize
    /\ tiles = <<>>
    /\ tile_indices = <<>>
    /\ none_attrs = {"tiles", "tile_indices"}
    /\ tiles_width = 0
    /\ tiles_height = 0
    /\ cur_slice_y = 0
    /\ new_tiles = <<>>
    /\ cur_new = 0
    /\ IdleOutput
    /\ IdlePlan
    /\ IdleCodec
    /\ IdleSheet

(* The size test of populate_extractor. *)
InvalidSize(sz, ts) == sz[1] % ts # 0 \/ sz[2] % ts # 0

(* Invalid image size: populate_extractor prints and returns. *)
PopulateAbort ==
    /\ pc = "populate"
    /\ InvalidSize(size, tile_size)
    /\ pc' = "populated"
    /\ UNCHANGED <<extractVars, outputVars, planVars, codecVars, sheetVars>>

(* Valid image size: the attributes are set for the scan. *)
PopulateBegin ==
    /\ pc = "populate"
    /\ ~InvalidSize(size, tile_size)
    /\ tiles' = <<>>
    /\ tile_indices' = <<>>
    /\ none_attrs' = {}
    /\ tiles_width' = size[1] \div tile_size
    /\ tiles_height' = size[2] \div tile_size
    /\ cur_slice_y' = 0
    /\ pc' = "band"
    /\ UNCHANGED <<size, image_data, iter_map, tile_size, new_tiles, cur_new,
                   outputVars, planVars, codecVars, sheetVars>>

(* BandTiles with the column moved on by one pixel per tile instead of    *)
(* tile_size pixels. *)
BandTilesPixelStep(band, w, ts) ==
    [j \in 1..(w \div ts) |->
        [r \in 1..Len(band) |-> PySlice(band[r], (j - 1) * 3, (j - 1) * 3 + ts * 3)]]

(* The candidates cut from a band of rows: candidate j takes, from every   *)
(* row of the band, the tile_size pixels starting at pixel (j-1)*tile_size. *)
BandTiles(band, w, ts) ==
    [j \in 1..(w \div ts) |->
        [r \in 1..Len(band) |-> PySlice(band[r], (j - 1) * ts * 3, (j - 1) * ts * 3 + ts * 3)]]

(* One pass of the while loop up to the duplicate search: islice takes the *)
(* next tile_size rows off the iterator and the rows are cut into tiles.   *)
ReadBand ==
    /\ pc = "band"
    /\ cur_slice_y < size[2]
    /\ LET band == PySlice(iter_map, 0, tile_size)
       IN /\ new_tiles' = BandTiles(band, size[1], tile_size)
          /\ iter_map' = SubSeq(iter_map, Len(band) + 1, Len(iter_map))
    /\ cur_new' = 1
    /\ pc' = "admit"
    /\ UNCHANGED <<size, image_data, tile_size, tiles, tile_indices, none_attrs,
                   tiles_width, tiles_height, cur_slice_y,
                   outputVars, planVars, codecVars, sheetVars>>

(* compare_tiles looking at the first row of the tiles only. *)
CompareTilesFirstRow(tile_row_list1, tile_row_list2) ==
    \A col \in 1..Len(tile_row_list1[1]) :
        ~IsNot(tile_row_list1[1][col], tile_row_list2[1][col])

(* compare_tiles: True when no channel of tile 1 differs from tile 2's. *)
CompareTiles(tile_row_list1, tile_row_list2) ==
    \A row \in 1..Len(tile_row_list1) :
        \A col \in 1..Len(tile_row_list1[row]) :
            ~IsNot(tile_row_list1[row][col], tile_row_list2[row][col])

(* The 0-based positions of the master tiles that compare equal to the     *)
(* candidate; the inner for loop breaks at the first one.                  *)
Matches(master, new_tile) ==
    {i \in 0..(Len(master) - 1) : CompareTiles(master[i + 1], new_tile)}

FirstMatch(master, new_tile) ==
    CHOOSE i \in Matches(master, new_tile) : \A j \in Matches(master, new_tile) : i <= j

(* The index appended for a candidate that matched master tile i (0-based). *)
FoundIndex(master_tile_index) == master_tile_index + 1

(* The index of an appended candidate taken one too high. *)
AdmittedIndexNext(master) == Len(master) + 1

(* The index appended for a candidate that was just appended to the tiles. *)
AdmittedIndex(master) == Len(master)

(* One pass of the for loop over new_tiles: the candidate gets the index   *)
(* of the first equal master tile, or is appended and gets the new length. *)
(* After the last candidate of the band cur_slice_y moves to the next band.*)
AdmitCandidate ==
    /\ pc = "admit"
    /\ cur_new <= Len(new_tiles)
    /\ LET new_tile == new_tiles[cur_new]
       IN IF Matches(tiles, new_tile) # {}
          THEN /\ tile_indices' = Append(tile_indices, FoundIndex(FirstMatch(tiles, new_tile)))
               /\ tiles' = tiles
          ELSE /\ tiles' = Append(tiles, new_tile)
               /\ tile_indices' = Append(tile_indices, AdmittedIndex(tiles'))
    /\ IF cur_new = Len(new_tiles)
       THEN /\ cur_slice_y' = cur_slice_y + tile_size
            /\ pc' = "band"
            /\ cur_new' = cur_new
       ELSE /\ cur_new' = cur_new + 1
            /\ UNCHANGED <<cur_slice_y, pc>>
    /\ UNCHANGED <<size, image_data, iter_map, tile_size, none_attrs,
                   tiles_width, tiles_height, new_tiles,
                   outputVars, planVars, codecVars, sheetVars>>

(* The while loop ends: the file is closed and populate_extractor returns. *)
PopulateEnd ==
    /\ pc = "band"
    /\ cur_slice_y >= size[2]
    /\ pc' = "populated"
    /\ UNCHANGED <<extractVars, outputVars, planVars, codecVars, sheetVars>>

----------------------------------------------------------------------------
(* get_tile_sheet_specs. *)

(* The defaults of min_sheet_width and max_sheet_width. *)
DefaultMinSheetWidth == 64
DefaultMaxSheetWidth == 512

(* The table built by the first while loop, from cur_sheet_width down:     *)
(* (width, int(pow(width / tile_size, 2))) for the widths >= min, halving. *)
RECURSIVE TableFrom(_, _, _)
TableFrom(cur_sheet_width, ts, min_w) ==
    IF cur_sheet_width >= min_w
    THEN <<<<cur_sheet_width, PowTwo(cur_sheet_width \div ts)>>>>
         \o TableFrom(cur_sheet_width \div 2, ts, min_w)
    ELSE <<>>

TilesTable(ts, min_w, max_w) == TableFrom(max_w, ts, min_w)

(* The for loop over the table leaving at the first entry that holds the   *)
(* tiles left. *)
RECURSIVE SearchTableFirst(_, _, _, _)
SearchTableFirst(table, i, left, chosen) ==
    IF i > Len(table) THEN chosen
    ELSE IF table[i][2] >= left THEN table[i]
    ELSE SearchTableFirst(table, i + 1, left, chosen)

(* The for loop over the table: every entry that holds the tiles left      *)
(* replaces the choice, so the last such entry stays.                      *)
RECURSIVE SearchTable(_, _, _, _)
SearchTable(table, i, left, chosen) ==
    IF i > Len(table) THEN chosen
    ELSE SearchTable(table, i + 1, left,
                     IF table[i][2] >= left THEN table[i] ELSE chosen)

(* The body of the selection loop up to the choice of chosen_sheet_size. *)
ChosenSheetSize(table, left) ==
    IF left > table[1][2]
    THEN table[1]
    ELSE SearchTable(table, 1, left, table[Len(table)])

(* The selection loop going on at zero tiles left as well. *)
TilesRemainOrNone(left) == left >= 0

(* The selection loop goes on while this holds. *)
TilesRemain(left) == left > 0

(* The selection loop run to its end (callers use it on arguments for      *)
(* which it ends). *)
RECURSIVE SelectSheets(_, _, _)
SelectSheets(table, left, out) ==
    IF TilesRemain(left)
    THEN LET chosen == ChosenSheetSize(table, left)
         IN SelectSheets(table, left - chosen[2], Append(out, chosen[1]))
    ELSE out

GetTileSheetSpecs(n, ts, min_w, max_w) ==
    SelectSheets(TilesTable(ts, min_w, max_w), n, <<>>)

(* The selection loop ends unless tiles remain and the widest sheet holds  *)
(* no tile: then the widest sheet is chosen in every pass and              *)
(* num_tiles_left stays as it is. *)
PlanReturns(n, ts, min_w, max_w) ==
    ~TilesRemain(n) \/ TilesTable(ts, min_w, max_w)[1][2] > 0

----------------------------------------------------------------------------
(* The index codec: struct.pack("<L"), the base64 codec, the gzip reader. *)

B64Alphabet ==
    <<"A", "B", "C", "D", "E", "F", "G", "H", "I", "J", "K", "L", "M",
      "N", "O", "P", "Q", "R", "S", "T", "U", "V", "W", "X", "Y", "Z",
      "a", "b", "c", "d", "e", "f", "g", "h", "i", "j", "k", "l", "m",
      "n", "o", "p", "q", "r", "s", "t", "u", "v", "w", "x", "y", "z",
      "0", "1", "2", "3", "4", "5", "6", "7", "8", "9", "+", "/">>

B64Chars == {B64Alphabet[i] : i \in 1..64}

B64Value(c) == (CHOOSE i \in 1..64 : B64Alphabet[i] = c) - 1

Whitespace == {"\n", " "}

(* struct.pack("<L", v) for 0 <= v < 2^32: four bytes, lowest first. *)
StructPack(v) ==
    <<v % 256, (v \div 256) % 256, (v \div 65536) % 256, (v \div 16777216) % 256>>

(* struct.unpack("<L", b)[0] for four bytes b. *)
StructUnpack(b) == b[1] + 256 * b[2] + 65536 * b[3] + 16777216 * b[4]

(* binascii.b2a_base64 without its newline: 3 bytes give 4 characters, a   *)
(* last group of 1 or 2 bytes is padded with "=". *)
RECURSIVE B2A(_)
B2A(bytes) ==
    IF Len(bytes) = 0 THEN <<>>
    ELSE IF Len(bytes) = 1
    THEN <<B64Alphabet[(bytes[1] \div 4) + 1],
           B64Alphabet[((bytes[1] % 4) * 16) + 1], "=", "=">>
    ELSE IF Len(bytes) = 2
    THEN <<B64Alphabet[(bytes[1] \div 4) + 1],
           B64Alphabet[((bytes[1] % 4) * 16 + bytes[2] \div 16) + 1],
           B64Alphabet[((bytes[2] % 16) * 4) + 1], "=">>
    ELSE <<B64Alphabet[(bytes[1] \div 4) + 1],
           B64Alphabet[((bytes[1] % 4) * 16 + bytes[2] \div 16) + 1],
           B64Alphabet[((bytes[2] % 16) * 4 + bytes[3] \div 64) + 1],
           B64Alphabet[(bytes[3] % 64) + 1]>>
         \o B2A(SubSeq(bytes, 4, Len(bytes)))

(* str.encode('base64'): every 57 bytes make one line, each line ends with *)
(* a newline; the empty string stays empty. *)
RECURSIVE Base64Encode(_)
Base64Encode(bytes) ==
    IF Len(bytes) = 0 THEN <<>>
    ELSE B2A(PySlice(bytes, 0, 57)) \o <<"\n">>
         \o Base64Encode(SubSeq(bytes, 58, Len(bytes)))

(* The bytes of complete groups of base64 values; 2 left-over values give  *)
(* 1 byte, 3 give 2 bytes. *)
RECURSIVE A2BValues(_)
A2BValues(v) ==
    IF Len(v) < 2 THEN <<>>
    ELSE IF Len(v) = 2 THEN <<v[1] * 4 + v[2] \div 16>>
    ELSE IF Len(v) = 3
    THEN <<v[1] * 4 + v[2] \div 16, (v[2] % 16) * 16 + v[3] \div 4>>
    ELSE <<v[1] * 4 + v[2] \div 16, (v[2] % 16) * 16 + v[3] \div 4,
           (v[3] % 4) * 64 + v[4]>>
         \o A2BValues(SubSeq(v, 5, Len(v)))

(* str.decode('base64'): characters outside the alphabet are skipped; the  *)
(* last group must be padded to four characters, or binascii.Error is      *)
(* raised ("Incorrect padding"). *)
Base64Decode(text) ==
    LET chars == SelectSeq(text, LAMBDA c : c \in B64Chars)
        pads == Len(SelectSeq(text, LAMBDA c : c = "="))
        vals == [i \in 1..Len(chars) |-> B64Value(chars[i])]
        rest == Len(chars) % 4
    IN IF rest = 1 \/ (rest = 2 /\ pads < 2) \/ (rest = 3 /\ pads < 1)
       THEN [ok |-> FALSE, bytes |-> <<>>]
       ELSE [ok |-> TRUE, bytes |-> A2BValues(vals)]

(* str.strip() *)
RECURSIVE Strip(_)
Strip(text) ==
    IF Len(text) = 0 THEN text
    ELSE IF text[1] \in Whitespace THEN Strip(Tail(text))
    ELSE IF text[Len(text)] \in Whitespace THEN Strip(SubSeq(text, 1, Len(text) - 1))
    ELSE text

(* The gzip container as the reader sees it: the magic bytes 1f 8b and the *)
(* method byte 08 (deflate), then the body. The deflate body is kept as    *)
(* its stored bytes; the rest of the header and the trailer are left out.  *)
GzipHeader == <<31, 139, 8>>

(* zlib.decompress(data, 16 + zlib.MAX_WBITS): the body of a gzip          *)
(* container, zlib.error for anything that does not start as one. *)
ZlibDecompress(data) ==
    IF Len(data) >= 3 /\ SubSeq(data, 1, 3) = GzipHeader
    THEN [ok |-> TRUE, bytes |-> SubSeq(data, 4, Len(data))]
    ELSE [ok |-> FALSE, bytes |-> <<>>]

(* get_base_64_index_string: the indices packed one after the other, then  *)
(* base64. *)
RECURSIVE PackedIndices(_)
PackedIndices(indices) ==
    IF Len(indices) = 0 THEN <<>>
    ELSE StructPack(Head(indices)) \o PackedIndices(Tail(indices))

GetBase64IndexString(indices) == Base64Encode(PackedIndices(indices))

(* num_ints counting a buffer with a partial last group as empty. *)
NumIntsWholeOnly(data) == IF Len(data) % 4 = 0 THEN Len(data) \div 4 ELSE 0

(* num_ints = len(decompressed_data) / 4, Python 2's integer division. *)
NumInts(data) == Len(data) \div 4

(* The loop over the 4-byte groups of the decompressed data. *)
UnpackInts(data) ==
    [i \in 1..NumInts(data) |-> StructUnpack(SubSeq(data, 4 * (i - 1) + 1, 4 * i))]

----------------------------------------------------------------------------
(* The output methods. *)

(* has_validate_tiles testing the tile size only. *)
HasValidateTilesSizeOnly(t, ti, na, ts) == ~(ts <= 0)

(* has_validate_tiles: None and the empty list are both falsy. *)
HasValidateTiles(t, ti, na, ts) ==
    ~("tiles" \in na \/ t = <<>> \/ "tile_indices" \in na \/ ti = <<>> \/ ts <= 0)

(* The name of sheet or tile file number i, '<group>_<i>.png', and of the  *)
(* map, '<group>.tmx'. *)
PngName(file_index) == <<"png", file_index>>
TmxName == <<"tmx", 0>>

(* The for loop of output_tiles_to_sheets from sheet file_index on: the    *)
(* calls it makes to output_tiles_to_sheet. *)
RECURSIVE SheetsLoop(_, _, _, _, _)
SheetsLoop(sheet_info, file_index, cur_out_tile, t, ts) ==
    IF file_index >= Len(sheet_info) THEN <<>>
    ELSE LET square_width == sheet_info[file_index + 1]
             num_tiles_in_sheet == PowTwo(square_width \div ts)
             tiles_left == Len(t) - cur_out_tile
             num_tiles_on_sheet ==
                 IF num_tiles_in_sheet > tiles_left THEN tiles_left ELSE num_tiles_in_sheet
             tiles_out == PySlice(t, cur_out_tile, cur_out_tile + num_tiles_on_sheet)
         IN <<[tiles |-> tiles_out, square_width |-> square_width,
               file_index |-> file_index]>>
            \o SheetsLoop(sheet_info, file_index + 1, cur_out_tile + num_tiles_on_sheet, t, ts)

(* output_tiles_to_sheets: one sheet file per planned width. When the      *)
(* planning does not return, neither does the method. *)
OutputTilesToSheets ==
    /\ pc = "populated"
    /\ "output_tiles_to_sheets" \notin called
    /\ called' = called \cup {"output_tiles_to_sheets"}
    /\ IF ~HasValidateTiles(tiles, tile_indices, none_attrs, tile_size)
       THEN UNCHANGED <<pc, sheets, files>>
       ELSE IF ~PlanReturns(Len(tiles), tile_size,
                            DefaultMinSheetWidth, DefaultMaxSheetWidth)
       THEN pc' = "hung" /\ UNCHANGED <<sheets, files>>
       ELSE LET sheet_info == GetTileSheetSpecs(Len(tiles), tile_size,
                                                DefaultMinSheetWidth, DefaultMaxSheetWidth)
            IN /\ sheets' = SheetsLoop(sheet_info, 0, 0, tiles, tile_size)
               /\ files' = files \cup {PngName(i) : i \in 0..(Len(sheet_info) - 1)}
               /\ pc' = pc
    /\ UNCHANGED <<tmx, extractVars, planVars, codecVars, sheetVars>>

(* output_single_tiles_to_folder: one file per unique tile. *)
OutputSingleTilesToFolder ==
    /\ pc = "populated"
    /\ "output_single_tiles_to_folder" \notin called
    /\ called' = called \cup {"output_single_tiles_to_folder"}
    /\ IF HasValidateTiles(tiles, tile_indices, none_attrs, tile_size)
       THEN files' = files \cup {PngName(i) : i \in 0..(Len(tiles) - 1)}
       ELSE UNCHANGED files
    /\ UNCHANGED <<pc, sheets, tmx, extractVars, planVars, codecVars, sheetVars>>

(* The firstgid written without the step to 1-based indices. *)
FirstGidZeroBased(cur_first_tile_index) == cur_first_tile_index

(* The firstgid written for a tileset whose first tile is at 0-based       *)
(* position cur_first_tile_index. *)
FirstGid(cur_first_tile_index) == cur_first_tile_index + 1

(* The for loop of output_tmx_for_tiles from sheet file_index on: the      *)
(* tileset elements it appends to the map. *)
RECURSIVE TilesetsLoop(_, _, _, _)
TilesetsLoop(sheet_info, file_index, cur_first_tile_index, ts) ==
    IF file_index >= Len(sheet_info) THEN <<>>
    ELSE LET square_width == sheet_info[file_index + 1]
             num_tiles_in_sheet == PowTwo(square_width \div ts)
         IN <<[firstgid |-> FirstGid(cur_first_tile_index),
               name |-> file_index,
               source |-> PngName(file_index),
               width |-> square_width]>>
            \o TilesetsLoop(sheet_info, file_index + 1,
                            cur_first_tile_index + num_tiles_in_sheet, ts)

(* An attribute an element does not have. *)
NoAttr == "(absent)"

(* The data element of the layer: encoding base64, no compression          *)
(* attribute, the index string as its text. *)
DataElement(indices) ==
    [encoding |-> "base64", compression |-> NoAttr,
     text |-> GetBase64IndexString(indices)]

(* toprettyxml followed by minidom.parse: the text of an element comes     *)
(* back with the line break and indentation the printer put around it. *)
PrettyPrinted(data) ==
    [data EXCEPT !.text = <<"\n", " ">> \o data.text \o <<"\n", " ">>]

(* output_tmx_for_tiles: the map with its tilesets and one layer. When the *)
(* planning does not return, neither does the method. *)
OutputTmxForTiles ==
    /\ pc = "populated"
    /\ "output_tmx_for_tiles" \notin called
    /\ called' = called \cup {"output_tmx_for_tiles"}
    /\ IF ~HasValidateTiles(tiles, tile_indices, none_attrs, tile_size)
       THEN UNCHANGED <<pc, tmx, files>>
       ELSE IF ~PlanReturns(Len(tiles), tile_size,
                            DefaultMinSheetWidth, DefaultMaxSheetWidth)
       THEN pc' = "hung" /\ UNCHANGED <<tmx, files>>
       ELSE LET sheet_info == GetTileSheetSpecs(Len(tiles), tile_size,
                                                DefaultMinSheetWidth, DefaultMaxSheetWidth)
            IN /\ tmx' = <<[width |-> tiles_width, height |-> tiles_height,
                            tilewidth |-> tile_size,
                            tilesets |-> TilesetsLoop(sheet_info, 0, 0, tile_size),
                            layers |-> <<PrettyPrinted(DataElement(tile_indices))>>]>>
               /\ files' = files \cup {TmxName}
               /\ pc' = pc
    /\ UNCHANGED <<sheets, extractVars, planVars, codecVars, sheetVars>>

----------------------------------------------------------------------------
(* The extraction run: populate_extractor, then the output methods. *)

Next ==
    \/ PopulateAbort
    \/ PopulateBegin
    \/ ReadBand
    \/ AdmitCandidate
    \/ PopulateEnd
    \/ OutputTilesToSheets
    \/ OutputSingleTilesToFolder
    \/ OutputTmxForTiles

Spec == Init /\ [][Next]_vars

----------------------------------------------------------------------------
(* Properties of the extraction run (Spec). *)

(* populate_extractor has scanned a valid image to its end. *)
Extracted == pc = "populated" /\ none_attrs = {}

(* The grid of the image: cells are numbered row-major from 0. *)
GridWidth == size[1] \div tile_size
GridHeight == size[2] \div tile_size
Cells == 0..(GridWidth * GridHeight - 1)

(* The candidate tile of grid cell k, read off the image itself. *)
CellTile(k) ==
    [r \in 1..tile_size |->
        [c \in 1..(3 * tile_size) |->
            image_data[(k \div GridWidth) * tile_size + r][(k % GridWidth) * tile_size * 3 + c]]]

(* C1: after populate_extractor has processed an image, two grid cells     *)
(* have equal entries in tile_indices exactly when their candidate tiles   *)
(* are pixel-identical, and no two entries of self.tiles are               *)
(* pixel-identical.                                                        *)
DedupCompleteness ==
    Extracted =>
        /\ Len(tile_indices) = GridWidth * GridHeight
        /\ \A j \in Cells : \A k \in Cells :
              (CellTile(j) = CellTile(k)) <=> (tile_indices[j + 1] = tile_indices[k + 1])
        /\ \A a \in 1..Len(tiles) : \A b \in 1..Len(tiles) :
              a # b => tiles[a] # tiles[b]

(* A finished run on 2x2-pixel tiles with a repeated tile and two tiles    *)
(* that differ. *)
DedupCompletenessWitness ==
    /\ Extracted
    /\ tile_size = 2
    /\ \E j \in Cells : \E k \in Cells : j # k /\ CellTile(j) = CellTile(k)
    /\ \E j \in Cells : \E k \in Cells : CellTile(j) # CellTile(k)

(* C2: for an image whose width and height are multiples of tile_size,     *)
(* placing self.tiles[tile_indices[k] - 1] at grid cell k (row-major,      *)
(* k = row * tiles_width + column) reproduces the image, channel for       *)
(* channel.                                                                *)
GridReconstruction ==
    Extracted =>
        /\ Len(tile_indices) = tiles_width * tiles_height
        /\ \A y \in 1..size[2] : \A x \in 1..(3 * size[1]) :
              LET k == ((y - 1) \div tile_size) * tiles_width + ((x - 1) \div (3 * tile_size))
              IN tiles[tile_indices[k + 1]][((y - 1) % tile_size) + 1][((x - 1) % (3 * tile_size)) + 1]
                 = image_data[y][x]

(* A finished run on a grid of two rows and two columns of 2x2-pixel tiles *)
(* in which a tile repeats and not all tiles are equal. *)
GridReconstructionWitness ==
    /\ Extracted
    /\ tile_size = 2
    /\ tiles_width >= 2
    /\ tiles_height >= 2
    /\ Len(tiles) > 1
    /\ Len(tiles) < Len(tile_indices)

(* C3: while populate_extractor admits candidates, and at its end, every   *)
(* value idx of tile_indices satisfies 1 <= idx <= len(self.tiles).        *)
IndexSoundness ==
    "tile_indices" \notin none_attrs =>
        \A i \in 1..Len(tile_indices) :
            1 <= tile_indices[i] /\ tile_indices[i] <= Len(tiles)

(* In the middle of a band: a candidate has been found among the tiles     *)
(* and another has been appended. *)
IndexSoundnessWitness ==
    /\ pc = "admit"
    /\ Len(tile_indices) > Len(tiles)
    /\ Len(tiles) >= 2

(* C9: when the image width or height is not a multiple of tile_size,      *)
(* populate_extractor returns before any tile processing: tiles and        *)
(* tile_indices stay None, and the output methods write no file.           *)
AbortOnInvalidSize ==
    InvalidSize(size, tile_size) =>
        /\ pc \in {"populate", "populated"}
        /\ none_attrs = {"tiles", "tile_indices"}
        /\ tiles = <<>> /\ tile_indices = <<>>
        /\ files = {} /\ sheets = <<>> /\ tmx = <<>>

(* All three output methods have been called after the abort. *)
AbortOnInvalidSizeWitness ==
    /\ InvalidSize(size, tile_size)
    /\ pc = "populated"
    /\ called = {"output_tiles_to_sheets", "output_single_tiles_to_folder",
                 "output_tmx_for_tiles"}

----------------------------------------------------------------------------
(* SpecPlan: get_tile_sheet_specs called on its own, a pass of the         *)
(* selection loop in two steps.                                            *)

MaxNumTiles == 12     \* num_tiles ranges over 0 .. MaxNumTiles

(* output is recorded up to this many widths: a call whose sheets hold at  *)
(* least one tile each chooses at most num_tiles sheets, and a call that   *)
(* chooses more does not return (PlanReturnsIsExact).                      *)
MaxSheets == MaxNumTiles + 1

(* The tile sizes and sheet widths the calls are made with; the widths are *)
(* powers of two. *)
PlanTileSizes == {16, 32, 100, 128, 256, 512, 1024}
PlanWidths == {64, 128, 256, 512}

(* The arguments <<num_tiles, tile_size, min_sheet_width, max_sheet_width>>:*)
(* the small counts with every tile size and width pair, and 300 tiles of  *)
(* 32 pixels with the default widths. *)
PlanArguments ==
    {<<n, ts, mn, mx>> : n \in 0..MaxNumTiles, ts \in PlanTileSizes,
                         mn \in PlanWidths, mx \in PlanWidths}
    \cup {<<300, 32, DefaultMinSheetWidth, DefaultMaxSheetWidth>>}

InitPlan ==
    /\ pc = "plan"
    /\ \E a \in PlanArguments :
          /\ a[3] <= a[4]
          /\ num_tiles = a[1]
          /\ tile_size = a[2]
          /\ min_sheet_width = a[3]
          /\ max_sheet_width = a[4]
    /\ tiles_table = <<>>
    /\ num_tiles_left = 0
    /\ chosen_sheet_size = <<0, 0>>
    /\ output = <<>>
    /\ IdleScan
    /\ IdleAttrs
    /\ IdleOutput
    /\ IdleCodec
    /\ IdleSheet

(* The sheet table is built, output and num_tiles_left are set. *)
PlanBuildTable ==
    /\ pc = "plan"
    /\ tiles_table' = TilesTable(tile_size, min_sheet_width, max_sheet_width)
    /\ output' = <<>>
    /\ num_tiles_left' = num_tiles
    /\ pc' = "select"
    /\ UNCHANGED <<num_tiles, min_sheet_width, max_sheet_width, chosen_sheet_size,
                   extractVars, outputVars, codecVars, sheetVars>>

(* A pass of the selection loop, first half: tiles remain and a table      *)
(* entry is chosen. *)
PlanChoose ==
    /\ pc = "select"
    /\ TilesRemain(num_tiles_left)
    /\ chosen_sheet_size' = ChosenSheetSize(tiles_table, num_tiles_left)
    /\ pc' = "chosen"
    /\ UNCHANGED <<num_tiles, min_sheet_width, max_sheet_width, tiles_table,
                   num_tiles_left, output, extractVars, outputVars, codecVars, sheetVars>>

(* A pass of the selection loop, second half: the capacity chosen is taken *)
(* off the tiles left and the width is appended to output. *)
PlanTake ==
    /\ pc = "chosen"
    /\ num_tiles_left' = num_tiles_left - chosen_sheet_size[2]
    /\ output' = IF Len(output) < MaxSheets
                 THEN Append(output, chosen_sheet_size[1])
                 ELSE output
    /\ pc' = "select"
    /\ UNCHANGED <<num_tiles, min_sheet_width, max_sheet_width, tiles_table,
                   chosen_sheet_size, extractVars, outputVars, codecVars, sheetVars>>

(* The selection loop ends and output is returned. *)
PlanReturn ==
    /\ pc = "select"
    /\ ~TilesRemain(num_tiles_left)
    /\ pc' = "done"
    /\ UNCHANGED <<planVars, extractVars, outputVars, codecVars, sheetVars>>

NextPlan ==
    \/ PlanBuildTable
    \/ PlanChoose
    \/ PlanTake
    \/ PlanReturn

SpecPlan == InitPlan /\ [][NextPlan]_vars

(* PlanReturns tells the calls that return from those that do not: an      *)
(* invariant of SpecPlan. *)
PlanReturnsIsExact ==
    /\ pc = "done" => PlanReturns(num_tiles, tile_size, min_sheet_width, max_sheet_width)
    /\ (pc = "select" /\ TilesRemain(num_tiles_left) /\ Len(output) >= MaxSheets)
          => ~PlanReturns(num_tiles, tile_size, min_sheet_width, max_sheet_width)

(* The call runs on its own: a step that can be taken is taken. *)
FairSpecPlan == SpecPlan /\ WF_vars(NextPlan)

----------------------------------------------------------------------------
(* Properties of get_tile_sheet_specs (SpecPlan). *)

(* The capacity of a sheet of the given width: the tiles of tile_size that *)
(* fit in it, (width / tile_size)^2 with Python 2's integer division. *)
Capacity(width, ts) == (width \div ts) * (width \div ts)

(* The widths max, max/2, ... down to min. *)
RECURSIVE SheetWidths(_, _)
SheetWidths(min_w, max_w) ==
    IF max_w < min_w THEN {}
    ELSE {max_w} \cup SheetWidths(min_w, max_w \div 2)

(* The greedy rule: the largest sheet while the tiles left exceed its      *)
(* capacity, otherwise the smallest sheet whose capacity is at least the   *)
(* tiles left; the capacity of the sheet chosen is subtracted. *)
RECURSIVE GreedyRule(_, _, _, _)
GreedyRule(left, ts, min_w, max_w) ==
    IF left <= 0 THEN <<>>
    ELSE LET fitting == {w \in SheetWidths(min_w, max_w) : Capacity(w, ts) >= left}
             pick == IF left > Capacity(max_w, ts)
                     THEN max_w
                     ELSE CHOOSE w \in fitting : \A v \in fitting : w <= v
         IN <<pick>> \o GreedyRule(left - Capacity(pick, ts), ts, min_w, max_w)

(* C4: get_tile_sheet_specs returns exactly the sequence of the greedy     *)
(* rule over the widths max, max/2, ... down to min with capacity          *)
(* (width/tile_size)^2; (300, 32, 64, 512) yields [512, 256].              *)
GreedySheetPlan ==
    pc = "done" =>
        /\ output = GreedyRule(num_tiles, tile_size, min_sheet_width, max_sheet_width)
        /\ (<<num_tiles, tile_size, min_sheet_width, max_sheet_width>> = <<300, 32, 64, 512>>
               => output = <<512, 256>>)

(* The call of the example has returned: a largest sheet, then the         *)
(* smallest sheet that holds the 44 tiles left. *)
GreedySheetPlanWitness ==
    /\ pc = "done"
    /\ <<num_tiles, tile_size, min_sheet_width, max_sheet_width>> = <<300, 32, 64, 512>>
    /\ output = <<512, 256>>

(* The total capacity of the first n widths of a plan. *)
RECURSIVE TotalCapacity(_, _, _)
TotalCapacity(widths, n, ts) ==
    IF n = 0 THEN 0
    ELSE TotalCapacity(widths, n - 1, ts) + Capacity(widths[n], ts)

(* C5: for num_tiles > 0 the widths returned have a total capacity of at   *)
(* least num_tiles, and the sheets before the last one have a total        *)
(* capacity below num_tiles.                                               *)
SheetCoverage ==
    (pc = "done" /\ num_tiles > 0) =>
        /\ Len(output) > 0
        /\ TotalCapacity(output, Len(output), tile_size) >= num_tiles
        /\ TotalCapacity(output, Len(output) - 1, tile_size) < num_tiles

(* A returned plan of several sheets, the last one filled exactly. *)
SheetCoverageWitness ==
    /\ pc = "done"
    /\ Len(output) >= 2
    /\ TotalCapacity(output, Len(output), tile_size) = num_tiles

(* C6: for num_tiles > 0, a positive tile_size and power-of-two widths     *)
(* min_sheet_width <= max_sheet_width, get_tile_sheet_specs terminates and *)
(* returns a non-empty sequence of widths.                                 *)
PlanTerminates ==
    (pc = "plan" /\ num_tiles > 0) ~> (pc = "done" /\ Len(output) > 0)

----------------------------------------------------------------------------
(* SpecOutput: the output methods on an extractor that holds n unique      *)
(* tiles of a large tile size. The pixels of the tiles are left out: tile  *)
(* number i is the value i. The image was one row of n different tiles.    *)

OutputTileSizes == {100, 128, 256, 512, 1024}

InitOutput ==
    /\ pc = "populated"
    /\ \E n \in 1..MaxNumTiles :
          /\ tiles = [i \in 1..n |-> i]
          /\ tile_indices = [i \in 1..n |-> i]
          /\ tiles_width = n
    /\ tiles_height = 1
    /\ none_attrs = {}
    /\ tile_size \in OutputTileSizes
    /\ IdleScan
    /\ IdleOutput
    /\ IdlePlan
    /\ IdleCodec
    /\ IdleSheet

NextOutput ==
    \/ OutputTilesToSheets
    \/ OutputSingleTilesToFolder
    \/ OutputTmxForTiles

SpecOutput == InitOutput /\ [][NextOutput]_vars

(* The tiles of the first n sheets, in order. *)
RECURSIVE PlacedTiles(_, _)
PlacedTiles(sheet_calls, n) ==
    IF n = 0 THEN <<>>
    ELSE PlacedTiles(sheet_calls, n - 1) \o sheet_calls[n].tiles

(* C10: each tileset record written by output_tmx_for_tiles has firstgid   *)
(* equal to the 1-based position in self.tiles of the first tile that      *)
(* output_tiles_to_sheets places on the sheet of the same index, that is   *)
(* 1 + the number of tiles on the sheets before it; the slices placed are  *)
(* consecutive runs that cover every unique tile exactly once.             *)
FirstGidMatchesSheets ==
    ("output_tiles_to_sheets" \in called /\ tmx # <<>> /\ pc # "hung") =>
        /\ Len(tmx[1].tilesets) = Len(sheets)
        /\ PlacedTiles(sheets, Len(sheets)) = tiles
        /\ \A s \in 1..Len(sheets) :
              /\ sheets[s].file_index = s - 1
              /\ tmx[1].tilesets[s].name = sheets[s].file_index
              /\ tmx[1].tilesets[s].width = sheets[s].square_width
              /\ tmx[1].tilesets[s].firstgid = 1 + Len(PlacedTiles(sheets, s - 1))
              /\ sheets[s].tiles # <<>>
              /\ tiles[tmx[1].tilesets[s].firstgid] = sheets[s].tiles[1]

(* Both methods have run on a plan of several sheets whose last sheet is   *)
(* not full. *)
FirstGidMatchesSheetsWitness ==
    /\ "output_tiles_to_sheets" \in called
    /\ tmx # <<>>
    /\ Len(sheets) >= 2
    /\ Len(sheets[Len(sheets)].tiles)
          < PowTwo(sheets[Len(sheets)].square_width \div tile_size)

----------------------------------------------------------------------------
(* SpecCodec: get_tile_indices, on the map output_tmx_for_tiles wrote for  *)
(* an index sequence, and on maps made elsewhere.                          *)

MaxLen == 4           \* index sequences written have 1 .. MaxLen entries
MaxBytes == 5         \* layers read hold 0 .. MaxBytes bytes of index data
MaxLayers == 2        \* maps read have 1 .. MaxLayers layers

(* The index sequences populate_extractor can leave: the first entry is 1  *)
(* and an entry is at most one above the largest entry before it. *)
IsIndexSequence(x) ==
    \A i \in 1..Len(x) :
        /\ 1 <= x[i]
        /\ \/ \E j \in 1..(i - 1) : x[i] <= x[j] + 1
           \/ x[i] = 1

IndexSequences ==
    {x \in UNION {[1..n -> 1..n] : n \in 1..MaxLen} : IsIndexSequence(x)}

LargestIndex(x) == CHOOSE m \in 1..Len(x) : \A i \in 1..Len(x) : x[i] <= m /\ \E j \in 1..Len(x) : x[j] = m

(* Index data of n bytes: the bytes first, first + 1, ... *)
ByteRun(first, n) == [i \in 1..n |-> (first + i - 1) % 256]

IndexData == {ByteRun(first, n) : first \in {0, 1, 255}, n \in 0..MaxBytes}

(* The text of a data element as minidom hands it over. *)
ElementText(bytes) == <<"\n", " ">> \o Base64Encode(bytes) \o <<" ">>

(* The data elements of the maps read: gzip containers declared as such,   *)
(* one element for every other declaration, and raw index data declared    *)
(* as gzip. *)
DataElements ==
    {[encoding |-> "base64", compression |-> "gzip",
      text |-> ElementText(GzipHeader \o d)] : d \in IndexData}
    \cup {[encoding |-> e, compression |-> c,
           text |-> ElementText(GzipHeader \o ByteRun(1, 4))] :
             e \in {"base64", "csv", NoAttr}, c \in {"gzip", "zlib", NoAttr}}
    \cup {[encoding |-> "base64", compression |-> "gzip",
           text |-> ElementText(ByteRun(1, 4))]}

GivenMaps ==
    {[layers |-> l] : l \in UNION {[1..n -> DataElements] : n \in 1..MaxLayers}}

(* Either an extractor holding an index sequence (its tiles numbered, its  *)
(* image one row of cells), or a map made elsewhere about to be read. *)
InitCodec ==
    /\ \/ /\ pc = "populated"
          /\ tile_indices \in IndexSequences
          /\ tiles = [i \in 1..LargestIndex(tile_indices) |-> i]
          /\ tiles_width = Len(tile_indices)
          /\ tiles_height = 1
          /\ none_attrs = {}
          /\ tile_size = 32
          /\ tmx_file = <<>>
       \/ /\ pc = "read"
          /\ IdleAttrs
          /\ tile_size = 0
          /\ \E m \in GivenMaps : tmx_file = <<m>>
    /\ layer_i = 0
    /\ index_list = <<>>
    /\ outcome = "none"
    /\ IdleScan
    /\ IdleOutput
    /\ IdlePlan
    /\ IdleSheet

(* get_tile_indices is called on the map that was written: the document is *)
(* parsed and the loop over its layers starts. *)
GetTileIndicesOfWritten ==
    /\ pc = "populated"
    /\ tmx # <<>>
    /\ tmx_file' = tmx
    /\ index_list' = <<>>
    /\ layer_i' = 1
    /\ pc' = "layers"
    /\ UNCHANGED <<outcome, extractVars, outputVars, planVars, sheetVars>>

(* get_tile_indices is called on a given map. *)
GetTileIndicesOfGiven ==
    /\ pc = "read"
    /\ index_list' = <<>>
    /\ layer_i' = 1
    /\ pc' = "layers"
    /\ UNCHANGED <<tmx_file, outcome, extractVars, outputVars, planVars, sheetVars>>

(* What one pass of the loop over the layers does with a data element:     *)
(* the error it raises, or the indices it appends. A missing attribute is  *)
(* a KeyError, a declaration other than base64 and gzip ends in quit(). *)
LayerResult(data) ==
    IF data.encoding = NoAttr \/ data.compression = NoAttr
    THEN [outcome |-> "KeyError", ints |-> <<>>]
    ELSE IF data.encoding # "base64" \/ data.compression # "gzip"
    THEN [outcome |-> "quit", ints |-> <<>>]
    ELSE LET data_compressed == Base64Decode(Strip(data.text))
         IN IF ~data_compressed.ok
            THEN [outcome |-> "binascii.Error", ints |-> <<>>]
            ELSE LET decompressed_data == ZlibDecompress(data_compressed.bytes)
                 IN IF ~decompressed_data.ok
                    THEN [outcome |-> "zlib.error", ints |-> <<>>]
                    ELSE [outcome |-> "none", ints |-> UnpackInts(decompressed_data.bytes)]

(* One pass of the loop over the layers. *)
DecodeLayer ==
    /\ pc = "layers"
    /\ layer_i <= Len(tmx_file[1].layers)
    /\ LET r == LayerResult(tmx_file[1].layers[layer_i])
       IN IF r.outcome = "none"
          THEN /\ index_list' = index_list \o r.ints
               /\ layer_i' = layer_i + 1
               /\ UNCHANGED <<pc, outcome>>
          ELSE /\ outcome' = r.outcome
               /\ pc' = "raised"
               /\ UNCHANGED <<index_list, layer_i>>
    /\ UNCHANGED <<tmx_file, extractVars, outputVars, planVars, sheetVars>>

(* The loop is over: index_list is returned. *)
GetTileIndicesReturn ==
    /\ pc = "layers"
    /\ layer_i > Len(tmx_file[1].layers)
    /\ outcome' = "returned"
    /\ pc' = "done"
    /\ UNCHANGED <<tmx_file, layer_i, index_list, extractVars, outputVars, planVars, sheetVars>>

NextCodec ==
    \/ OutputTmxForTiles
    \/ GetTileIndicesOfWritten
    \/ GetTileIndicesOfGiven
    \/ DecodeLayer
    \/ GetTileIndicesReturn

SpecCodec == InitCodec /\ [][NextCodec]_vars

----------------------------------------------------------------------------
(* Properties of the index codec (SpecCodec). *)

(* C7: decoding with get_tile_indices the layer data that the write path   *)
(* (get_base_64_index_string, embedded by output_tmx_for_tiles) produces   *)
(* from an index sequence x yields exactly x.                              *)
CodecRoundTrip ==
    (tmx # <<>> /\ tmx_file = tmx /\ pc \in {"done", "raised"}) =>
        (outcome = "returned" /\ index_list = tile_indices)

(* The buffer get_tile_indices unpacks for a data element it accepts. *)
LayerBuffer(data) == ZlibDecompress(Base64Decode(Strip(data.text)).bytes).bytes

(* C8, as claimed: get_tile_indices fails, and returns no index sequence,  *)
(* whenever the decoded and decompressed buffer of a layer has a length    *)
(* that is not a multiple of 4.                                            *)
PartialGroupRejected ==
    outcome = "returned" =>
        \A i \in 1..Len(tmx_file[1].layers) :
            Len(LayerBuffer(tmx_file[1].layers[i])) % 4 = 0

(* A data element that declares base64 and gzip and holds a gzip container *)
(* of index data, and the index data it holds. *)
IsGzipLayer(data) ==
    /\ data.encoding = "base64"
    /\ data.compression = "gzip"
    /\ \E d \in IndexData : data.text = ElementText(GzipHeader \o d)

IndexDataOf(data) == CHOOSE d \in IndexData : data.text = ElementText(GzipHeader \o d)

(* The little-endian values of the complete 4-byte groups of index data. *)
WholeGroups(d) ==
    [k \in 1..(Len(d) \div 4) |->
        d[4 * k - 3] + 256 * d[4 * k - 2] + 65536 * d[4 * k - 1] + 16777216 * d[4 * k]]

RECURSIVE WholeGroupsOf(_, _)
WholeGroupsOf(layers, n) ==
    IF n = 0 THEN <<>>
    ELSE WholeGroupsOf(layers, n - 1) \o WholeGroups(IndexDataOf(layers[n]))

(* C8, amended: on layers that declare base64 and gzip and hold a gzip     *)
(* container, get_tile_indices raises nothing whatever the length of the   *)
(* decompressed buffer; it returns the values of the complete 4-byte       *)
(* groups of every layer and ignores the 1 to 3 bytes after the last one.  *)
PartialGroupIgnored ==
    (tmx_file # <<>> /\ tmx = <<>>
       /\ \A i \in 1..Len(tmx_file[1].layers) : IsGzipLayer(tmx_file[1].layers[i])) =>
        /\ pc # "raised"
        /\ outcome \in {"none", "returned"}
        /\ (pc = "layers" => index_list = WholeGroupsOf(tmx_file[1].layers, layer_i - 1))
        /\ (pc = "done" =>
              /\ outcome = "returned"
              /\ index_list = WholeGroupsOf(tmx_file[1].layers, Len(tmx_file[1].layers)))

(* A map was read to its end although a layer of it holds a complete group *)
(* followed by a partial one. *)
PartialGroupIgnoredWitness ==
    /\ pc = "done"
    /\ outcome = "returned"
    /\ \A i \in 1..Len(tmx_file[1].layers) : IsGzipLayer(tmx_file[1].layers[i])
    /\ \E i \in 1..Len(tmx_file[1].layers) :
          /\ Len(IndexDataOf(tmx_file[1].layers[i])) > 4
          /\ Len(IndexDataOf(tmx_file[1].layers[i])) % 4 # 0
    /\ Len(index_list) >= 1

----------------------------------------------------------------------------
(* SpecSheet: output_tiles_to_sheet called on a run of tiles, one output   *)
(* row per step.                                                           *)

MaxSheetTile == 3     \* tiles of 1 .. MaxSheetTile pixels a side are laid out

(* The sheet widths tried, powers of two. *)
SheetSquareWidths == {2, 4, 8}

(* Tile number k of ts x ts pixels in which every pixel tells where it is  *)
(* from: its channels are the tile number, its column and its row. *)
TaggedTile(k, ts) ==
    [r \in 1..ts |->
        [i \in 1..(3 * ts) |->
            IF (i - 1) % 3 = 0 THEN k
            ELSE IF (i - 1) % 3 = 1 THEN (i - 1) \div 3
            ELSE r - 1]]

(* The call output_tiles_to_sheets makes for a sheet: a non-empty run of   *)
(* unique tiles, starting at tile number first, that the sheet can hold. *)
InitSheet ==
    /\ pc = "sheet"
    /\ tile_size \in 1..MaxSheetTile
    /\ sheet_width \in SheetSquareWidths
    /\ \E n \in 1..PowTwo(sheet_width \div tile_size), first \in {0, 4} :
          sheet_tiles = [k \in 1..n |-> TaggedTile(first + k - 1, tile_size)]
    /\ cur_row = 0
    /\ output_rows = <<>>
    /\ IdleScan
    /\ IdleAttrs
    /\ IdleOutput
    /\ IdlePlan
    /\ IdleCodec

(* The inner for loop from cur_tile_index on: the tile row of every tile   *)
(* of this tile row that exists, a row of 255 for every one that does not. *)
RECURSIVE RowOut(_, _, _, _)
RowOut(t, cur_row_, cur_tile_index, num_tiles_per_row) ==
    IF cur_tile_index >= num_tiles_per_row THEN <<>>
    ELSE LET num_tile_rows == Len(t[1])
             cur_tile_row == cur_row_ \div num_tile_rows
             tile_index == cur_tile_index + cur_tile_row * num_tiles_per_row
             piece == IF tile_index < Len(t)
                      THEN t[tile_index + 1][(cur_row_ % num_tile_rows) + 1]
                      ELSE [i \in 1..(num_tile_rows * 3) |-> 255]
         IN piece \o RowOut(t, cur_row_, cur_tile_index + 1, num_tiles_per_row)

(* num_tiles_per_row = square_width / num_tile_rows, an integer division. *)
NumTilesPerRow(t, sw) == sw \div Len(t[1])

(* The file is opened, which creates it, and the writer is set up. *)
SheetOpen ==
    /\ pc = "sheet"
    /\ files' = files \cup {PngName(0)}
    /\ output_rows' = <<>>
    /\ cur_row' = 0
    /\ pc' = "rows"
    /\ UNCHANGED <<called, sheets, tmx, sheet_tiles, sheet_width,
                   extractVars, planVars, codecVars>>

(* One pass of the for loop over the rows of the sheet. *)
SheetBuildRow ==
    /\ pc = "rows"
    /\ cur_row < sheet_width
    /\ output_rows' = Append(output_rows,
                             RowOut(sheet_tiles, cur_row, 0,
                                    NumTilesPerRow(sheet_tiles, sheet_width)))
    /\ cur_row' = cur_row + 1
    /\ UNCHANGED <<pc, sheet_tiles, sheet_width,
                   extractVars, outputVars, planVars, codecVars>>

(* The rows are handed to the writer made for square_width x square_width  *)
(* pixels. *)
SheetWrite ==
    /\ pc = "rows"
    /\ cur_row >= sheet_width
    /\ pc' = "written"
    /\ UNCHANGED <<extractVars, outputVars, planVars, codecVars, sheetVars>>

NextSheet ==
    \/ SheetOpen
    \/ SheetBuildRow
    \/ SheetWrite

SpecSheet == InitSheet /\ [][NextSheet]_vars

----------------------------------------------------------------------------
(* Properties of output_tiles_to_sheet (SpecSheet). *)

(* The pixel at column x, row y (from 0) of rows of flat channels. *)
PixelAt(rows, x, y) == SubSeq(rows[y + 1], 3 * x + 1, 3 * x + 3)

(* The pixel the layout rule puts at (x, y): pixel (x mod tile_size,       *)
(* y mod tile_size) of tile number (x div tile_size) + (y div tile_size) * *)
(* tilesPerRow when there is such a tile, white otherwise. *)
LayoutPixel(t, sw, ts, x, y) ==
    LET number == (x \div ts) + (y \div ts) * (sw \div ts)
    IN IF number < Len(t)
       THEN PixelAt(t[number + 1], x % ts, y % ts)
       ELSE <<255, 255, 255>>

(* The rows built are a sheet of sw x sw pixels laid out by the rule. *)
IsLaidOut(rows, t, sw, ts) ==
    /\ Len(rows) = sw
    /\ \A y \in 1..sw : Len(rows[y]) = 3 * sw
    /\ \A y \in 0..(sw - 1) : \A x \in 0..(sw - 1) :
          PixelAt(rows, x, y) = LayoutPixel(t, sw, ts, x, y)

(* C11: for every non-empty tile slice of at most (square_width /          *)
(* tile_size)^2 tiles, output_tiles_to_sheet builds exactly square_width   *)
(* rows of square_width pixels in which the pixel at (x, y) is pixel       *)
(* (x mod tile_size, y mod tile_size) of tile number (x div tile_size) +   *)
(* (y div tile_size) * tilesPerRow when that number is < len(tiles), and   *)
(* white (255, 255, 255) otherwise.                                        *)
SheetLayout ==
    pc = "written" => IsLaidOut(output_rows, sheet_tiles, sheet_width, tile_size)

(* The layout rule holds of the sheets whose width is a multiple of the    *)
(* tile size: an invariant of SpecSheet. *)
SheetLayoutWhenDivides ==
    (pc = "written" /\ sheet_width % tile_size = 0) =>
        IsLaidOut(output_rows, sheet_tiles, sheet_width, tile_size)

(* The rows built are square_width rows of                                 *)
(* (square_width / tile_size) * tile_size pixels each: an invariant of     *)
(* SpecSheet. *)
SheetRowWidth ==
    pc = "written" =>
        /\ Len(output_rows) = sheet_width
        /\ \A y \in 1..sheet_width :
              Len(output_rows[y]) = 3 * (sheet_width \div tile_size) * tile_size

====
